---- MODULE Spec2Model ----
(***************************************************************************)
(* The task-routing and contextual-memory orchestration workflow of the    *)
(* document assistant, in its two variants:                                *)
(*   "pinecone" : src/lib/advanced-ai-orchestrator.ts (lines 1-615)        *)
(*   "memory"   : src/unnamed/part_000 (in-process Map as memory store)    *)
(* Text is a sequence of one-character strings, so that toLowerCase,       *)
(* includes, trim, split and substring are computed, not assumed.          *)
(***************************************************************************)
EXTENDS Integers, Sequences, FiniteSets, TLC

VARIABLES
  backend,        \* which orchestrator module is loaded: "pinecone" | "memory"
  http,           \* the request the orchestration route is serving, and its answer
  env,            \* the names process.env has a value for
  admin,          \* what the statistics and clear functions answered
  other,          \* the frame of the second, suspended invocation
  memoryStore,    \* part_000: Map<string,{content,embedding}> in insertion order
  index,          \* Pinecone index: set of upserted vectors
  nextId,         \* source of fresh uuidv4() values
  callerHistory,  \* the array the caller passes as conversationHistory
  st,             \* the AIState threaded through the graph
  pc,             \* node of the graph the invocation is in
  step,           \* await the node is suspended on
  fileIdx,        \* processFiles: position of the for..of loop
  local,          \* locals of the running node that live across an await
  modelReply,     \* what the classification model answered in this invocation
  ran,            \* nodes started so far, in order
  finished,       \* nodes that returned or threw so far, in order
  calls,          \* how the file reads and stores, the completion call and the
                  \* response store ended
  queries,        \* the memory queries of this invocation, with their answers
  result          \* what runAdvancedAIWorkflow returned

vars == << backend, http, env, admin, other, memoryStore, index, nextId, callerHistory, st, pc, step,
           fileIdx, local, modelReply, ran, finished, calls, queries, result >>

----------------------------------------------------------------------------
(* Bounds *)

\* most file paths one request carries
MaxFiles == 4

----------------------------------------------------------------------------
(* Text *)

Upper == << "A","B","C","D","E","F","G","H","I","J","K","L","M",
            "N","O","P","Q","R","S","T","U","V","W","X","Y","Z" >>
Lower == << "a","b","c","d","e","f","g","h","i","j","k","l","m",
            "n","o","p","q","r","s","t","u","v","w","x","y","z" >>
Digits == { "0","1","2","3","4","5","6","7","8","9" }
WhiteSpace == { " ", "\n", "\t", "\r" }

Min(a, b) == IF a <= b THEN a ELSE b

LowerChar(c) ==
  IF \E i \in 1..26 : Upper[i] = c
    THEN Lower[CHOOSE i \in 1..26 : Upper[i] = c]
    ELSE c

\* String.prototype.toLowerCase
toLowerCase(s) == [i \in 1..Len(s) |-> LowerChar(s[i])]

\* String.prototype.includes
includes(s, kw) ==
  \E i \in 0..(Len(s) - Len(kw)) : SubSeq(s, i + 1, i + Len(kw)) = kw

\* String.prototype.substring(0, n)
substring(s, n) == SubSeq(s, 1, Min(n, Len(s)))

\* String.prototype.trim
trim(s) ==
  IF \A i \in 1..Len(s) : s[i] \in WhiteSpace
    THEN << >>
    ELSE LET lo == CHOOSE i \in 1..Len(s) :
                     /\ s[i] \notin WhiteSpace
                     /\ \A j \in 1..(i - 1) : s[j] \in WhiteSpace
             hi == CHOOSE i \in 1..Len(s) :
                     /\ s[i] \notin WhiteSpace
                     /\ \A j \in (i + 1)..Len(s) : s[j] \in WhiteSpace
         IN SubSeq(s, lo, hi)

\* Array.prototype.slice(0, n)
slice(xs, n) == SubSeq(xs, 1, Min(n, Len(xs)))

RECURSIVE join(_, _)
\* Array.prototype.join
join(parts, sep) ==
  IF parts = << >> THEN << >>
  ELSE IF Len(parts) = 1 THEN parts[1]
  ELSE parts[1] \o sep \o join(Tail(parts), sep)

\* optional (possibly undefined) values of the state object
None == << >>
Some(v) == << v >>

----------------------------------------------------------------------------
(* Configuration *)

\* the values the Pinecone variant insists on at load time
requiredEnv ==
  << "GOOGLE_API_KEY", "OLLAMA_BASE_URL", "OLLAMA_MODEL", "OPENAI_API_KEY",
     "PINECONE_API_KEY", "PINECONE_INDEX" >>

EnvNames == { requiredEnv[i] : i \in 1..Len(requiredEnv) }

\* the values the module hands to its clients
configUsed(b) ==
  IF b = "pinecone" THEN EnvNames
  ELSE { "GOOGLE_API_KEY", "OLLAMA_BASE_URL", "OLLAMA_MODEL", "OPENAI_API_KEY" }

----------------------------------------------------------------------------
(* Embedding provider and similarity *)

\* The embedding provider maps a text to a vector; the same text gives the
\* same vector.  Three directions occur, pairwise similarity
\* 0.707 (0,1), 0.949 (1,2) and 0.447 (0,2).
embedQuery(text) == << 1, Len(text) % 3 >>

RECURSIVE SumTo(_, _)
SumTo(f, n) == IF n = 0 THEN 0 ELSE f[n] + SumTo(f, n - 1)

\* a dot product that leaves out the last component
dotProductShort(a, b) ==
  IF Len(a) = 0 THEN 0 ELSE SumTo([i \in 1..Len(a) |-> a[i] * b[i]], Len(a) - 1)

dotProduct(a, b) == SumTo([i \in 1..Len(a) |-> a[i] * b[i]], Len(a))

\* cosineSimilarity(a, b) = sgn * sqrt(num / den), kept exact: sgn is the sign
\* of the dot product, num its square and den the product of the squared
\* magnitudes.  Zero is sgn = 0.
cosineSimilarity(a, b) ==
  IF Len(a) # Len(b) THEN [sgn |-> 0, num |-> 0, den |-> 1]
  ELSE LET d  == dotProduct(a, b)
           ma == dotProduct(a, a)
           mb == dotProduct(b, b)
       IN IF ma = 0 \/ mb = 0 \/ d = 0
            THEN [sgn |-> 0, num |-> 0, den |-> 1]
            ELSE [sgn |-> IF d > 0 THEN 1 ELSE -1, num |-> d * d, den |-> ma * mb]

\* the similarity threshold 0.7 = ThresholdNum / ThresholdDen
ThresholdNum == 7
ThresholdDen == 10

\* similarity > 0.7
aboveThreshold(sim) ==
  /\ sim.sgn = 1
  /\ sim.num * ThresholdDen * ThresholdDen > ThresholdNum * ThresholdNum * sim.den

----------------------------------------------------------------------------
(* Memory store, Pinecone variant *)

\* searchPinecone's default topK
DefaultTopK == 3
\* storeInPinecone keeps the first 1000 characters as metadata.content
ExcerptLen == 1000

\* sim x <= sim y, on the exact representation
simLeq(x, y) ==
  IF x.sgn # y.sgn THEN x.sgn < y.sgn
  ELSE IF x.sgn = 0 THEN TRUE
  ELSE IF x.sgn = 1 THEN x.num * y.den <= y.num * x.den
  ELSE y.num * x.den <= x.num * y.den

\* a store that lets the failure of its calls escape
storeInPineconeThrowing(idx, id, content, metadata, embedOk, upsertOk) ==
  IF embedOk /\ upsertOk
    THEN [index |-> idx \cup
                     { [id |-> id,
                        values |-> embedQuery(content),
                        metadata |-> [content |-> substring(content, ExcerptLen),
                                      fullContent |-> content,
                                      type |-> metadata.type,
                                      task |-> metadata.task]] },
          id |-> Some(id),
          threw |-> FALSE]
    ELSE [index |-> idx, id |-> None, threw |-> TRUE]

\* storeInPinecone(content, metadata): embedOk and upsertOk are the outcomes
\* of embeddings.embedQuery and index.upsert.  Every failure is caught and
\* answered with null; nothing is thrown to the caller.
storeInPinecone(idx, id, content, metadata, embedOk, upsertOk) ==
  IF embedOk /\ upsertOk
    THEN [index |-> idx \cup
                     { [id |-> id,
                        values |-> embedQuery(content),
                        metadata |-> [content |-> substring(content, ExcerptLen),
                                      fullContent |-> content,
                                      type |-> metadata.type,
                                      task |-> metadata.task]] },
          id |-> Some(id),
          threw |-> FALSE]
    ELSE [index |-> idx, id |-> None, threw |-> FALSE]

\* index.query({vector, topK, includeMetadata: true}) on an index whose metric
\* is cosine: the topK best-scoring records, best first; records of equal
\* score come in any order.
indexQuery(idx, vector, topK) ==
  LET k == Min(topK, Cardinality(idx))
      score(r) == cosineSimilarity(vector, r.values)
  IN { [i \in 1..k |-> [id |-> q[i].id, score |-> score(q[i]),
                        metadata |-> q[i].metadata]] :
         q \in { f \in [1..k -> idx] :
                   /\ \A i, j \in 1..k : i # j => f[i] # f[j]
                   /\ \A i \in 1..(k - 1) : simLeq(score(f[i + 1]), score(f[i]))
                   /\ \A r \in idx :
                        (\A i \in 1..k : f[i] # r) =>
                          \A i \in 1..k : simLeq(score(r), score(f[i])) } }

\* the match's score passes `match.score && match.score > 0.7`
scorePasses(match) == aboveThreshold(match.score)

\* metadata.fullContent || metadata.content || ""
matchContent(match) ==
  IF match.metadata.fullContent # << >> THEN match.metadata.fullContent
  ELSE match.metadata.content

\* what searchPinecone returns for the matches the index answered
searchResult(matches) ==
  LET kept  == SelectSeq(matches, scorePasses)
      texts == [i \in 1..Len(kept) |-> matchContent(kept[i])]
  IN SelectSeq(texts, LAMBDA c : Len(c) > 0)

\* searchPinecone(query, topK): the results it may return.  A failure of the
\* embedding or of the query gives [].
searchPinecone(idx, query, topK, embedOk, queryOk) ==
  IF embedOk /\ queryOk
    THEN { searchResult(m) : m \in indexQuery(idx, embedQuery(query), topK) }
    ELSE { << >> }

----------------------------------------------------------------------------
(* Memory store, in-process variant *)

\* length of the excerpt generateEmbeddings returns
SnippetLen == 200
Ellipsis == << ".", ".", "." >>

\* a store that forgets what it is given
memoryStoreDropping(store, id, content) == store

\* a clear that leaves the oldest record behind
clearMemoryKeepingOne(store) == SubSeq(store, 1, Min(1, Len(store)))

\* a store that writes over the newest record instead of adding one
memoryStoreOverwriting(store, id, content) ==
  LET record == [id |-> id, content |-> content, embedding |-> embedQuery(content)]
  IN IF store = << >> THEN << record >> ELSE [store EXCEPT ![Len(store)] = record]

\* a store that a clear made in the meantime cancels
memoryStoreUnlessCleared(store, id, content) ==
  IF admin.emptied THEN store
  ELSE Append(store, [id |-> id, content |-> content, embedding |-> embedQuery(content)])

\* memoryStore.set(uuidv4(), {content, embedding})
memoryStoreSet(store, id, content) ==
  Append(store, [id |-> id, content |-> content, embedding |-> embedQuery(content)])

\* the loop of generateEmbeddings over memoryStore.entries()
memorySimilarContent(store, embedding) ==
  LET hits == SelectSeq(store,
                LAMBDA item : aboveThreshold(cosineSimilarity(embedding, item.embedding)))
  IN [i \in 1..Len(hits) |-> substring(hits[i].content, SnippetLen) \o Ellipsis]

----------------------------------------------------------------------------
(* Task classifier *)

validCategories == << "writing", "reading", "qa", "analysis", "reasoning", "creative" >>
Categories == { validCategories[i] : i \in 1..Len(validCategories) }
Undefined == "undefined"

\* the category names as the model would spell them
CategoryText ==
  [ writing   |-> << "w", "r", "i", "t", "i", "n", "g" >>,
    reading   |-> << "r", "e", "a", "d", "i", "n", "g" >>,
    qa        |-> << "q", "a" >>,
    analysis  |-> << "a", "n", "a", "l", "y", "s", "i", "s" >>,
    reasoning |-> << "r", "e", "a", "s", "o", "n", "i", "n", "g" >>,
    creative  |-> << "c", "r", "e", "a", "t", "i", "v", "e" >> ]

kwWrite     == << "w", "r", "i", "t", "e" >>
kwCreate    == << "c", "r", "e", "a", "t", "e" >>
kwCompose   == << "c", "o", "m", "p", "o", "s", "e" >>
kwAnalyze   == << "a", "n", "a", "l", "y", "z", "e" >>
kwSummarize == << "s", "u", "m", "m", "a", "r", "i", "z", "e" >>
kwThink     == << "t", "h", "i", "n", "k" >>
kwReason    == << "r", "e", "a", "s", "o", "n" >>
kwLogic     == << "l", "o", "g", "i", "c" >>
kwCreative  == << "c", "r", "e", "a", "t", "i", "v", "e" >>
kwImagine   == << "i", "m", "a", "g", "i", "n", "e" >>
kwStory     == << "s", "t", "o", "r", "y" >>

\* a test that takes an empty list of file contents for attachments
hasFileContentsDefined(fileContents) == fileContents # None

\* `fileContents && fileContents.length > 0` on the optional state field
hasFileContents(fileContents) ==
  fileContents # None /\ Len(fileContents[1]) > 0

\* the if / else-if chain of the keyword fallback; `otherwise` is what the
\* chain leaves when no branch is taken
\* the chain with the attachment test moved in front of the writing test
keywordFallbackFilesFirst(input, fileContents, otherwise) ==
  LET lowerInput == toLowerCase(input)
  IN IF hasFileContents(fileContents)
       THEN IF includes(lowerInput, kwAnalyze) \/ includes(lowerInput, kwSummarize)
              THEN "analysis"
              ELSE "reading"
     ELSE IF \/ includes(lowerInput, kwWrite)
             \/ includes(lowerInput, kwCreate)
             \/ includes(lowerInput, kwCompose)
       THEN "writing"
     ELSE IF \/ includes(lowerInput, kwThink)
             \/ includes(lowerInput, kwReason)
             \/ includes(lowerInput, kwLogic)
       THEN "reasoning"
     ELSE IF \/ includes(lowerInput, kwCreative)
             \/ includes(lowerInput, kwImagine)
             \/ includes(lowerInput, kwStory)
       THEN "creative"
     ELSE otherwise

\* the chain with the attachment test moved behind the keyword tests
keywordFallbackFilesLast(input, fileContents, otherwise) ==
  LET lowerInput == toLowerCase(input)
  IN IF \/ includes(lowerInput, kwWrite)
        \/ includes(lowerInput, kwCreate)
        \/ includes(lowerInput, kwCompose)
       THEN "writing"
     ELSE IF \/ includes(lowerInput, kwThink)
             \/ includes(lowerInput, kwReason)
             \/ includes(lowerInput, kwLogic)
       THEN "reasoning"
     ELSE IF \/ includes(lowerInput, kwCreative)
             \/ includes(lowerInput, kwImagine)
             \/ includes(lowerInput, kwStory)
       THEN "creative"
     ELSE IF hasFileContents(fileContents)
       THEN IF includes(lowerInput, kwAnalyze) \/ includes(lowerInput, kwSummarize)
              THEN "analysis"
              ELSE "reading"
     ELSE otherwise

keywordFallback(input, fileContents, otherwise) ==
  LET lowerInput == toLowerCase(input)
  IN IF \/ includes(lowerInput, kwWrite)
        \/ includes(lowerInput, kwCreate)
        \/ includes(lowerInput, kwCompose)
       THEN "writing"
     ELSE IF hasFileContents(fileContents)
       THEN IF includes(lowerInput, kwAnalyze) \/ includes(lowerInput, kwSummarize)
              THEN "analysis"
              ELSE "reading"
     ELSE IF \/ includes(lowerInput, kwThink)
             \/ includes(lowerInput, kwReason)
             \/ includes(lowerInput, kwLogic)
       THEN "reasoning"
     ELSE IF \/ includes(lowerInput, kwCreative)
             \/ includes(lowerInput, kwImagine)
             \/ includes(lowerInput, kwStory)
       THEN "creative"
     ELSE otherwise

\* response.content.toString().trim().toLowerCase()
normalizeReply(content) == toLowerCase(trim(content))

\* the category a reply names, Undefined when it names none
replyCategory(content) ==
  LET category == normalizeReply(content)
  IN IF \E c \in Categories : CategoryText[c] = category
       THEN CHOOSE c \in Categories : CategoryText[c] = category
       ELSE Undefined

\* a reply of the classification model: ok = FALSE is a throw of
\* ollamaModel.invoke, called = FALSE means the model was not consulted
NoReply == [called |-> FALSE, ok |-> FALSE, content |-> << >>]
ReplyFailed == [called |-> TRUE, ok |-> FALSE, content |-> << >>]
Reply(content) == [called |-> TRUE, ok |-> TRUE, content |-> content]

\* classifyTask of the Pinecone variant: taskType starts as "qa", a valid
\* reply overwrites it, and the fallback runs while it is "qa"
classifyTaskPinecone(input, fileContents, reply) ==
  LET named    == IF reply.ok THEN replyCategory(reply.content) ELSE Undefined
      taskType == IF named # Undefined THEN named ELSE "qa"
  IN IF taskType = "qa"
       THEN keywordFallback(input, fileContents, taskType)
       ELSE taskType

\* classifyTask of the in-process variant: taskType starts undefined, the
\* model is asked only if state.embeddings is set, and the fallback runs
\* while taskType is undefined
classifyTaskMemory(input, fileContents, reply) ==
  LET taskType == IF reply.called /\ reply.ok
                    THEN replyCategory(reply.content)
                    ELSE Undefined
  IN IF taskType = Undefined
       THEN keywordFallback(input, fileContents, "qa")
       ELSE taskType

\* a classifier that asks the model whatever the context stage left
consultsModelAlways(b, embeddings) == TRUE

\* whether classifyTask asks the model: always in the Pinecone variant, under
\* `if (embeddings)` in the in-process one
consultsModel(b, embeddings) == b = "pinecone" \/ embeddings # None

classifyTask(b, input, fileContents, reply) ==
  IF b = "pinecone"
    THEN classifyTaskPinecone(input, fileContents, reply)
    ELSE classifyTaskMemory(input, fileContents, reply)

----------------------------------------------------------------------------
(* Graph *)

Handlers == { "handle_writing", "handle_reading", "handle_qa",
              "handle_reasoning", "handle_creative" }

\* addConditionalEdges of the Pinecone variant: state.taskType || "qa" looked
\* up in the path map
routePinecone(taskType) ==
  LET key == IF taskType = Undefined THEN "qa" ELSE taskType
  IN [ writing   |-> "handle_writing",
       reading   |-> "handle_reading",
       qa        |-> "handle_qa",
       analysis  |-> "handle_reading",
       reasoning |-> "handle_reasoning",
       creative  |-> "handle_creative" ][key]

\* addConditionalEdges of the in-process variant: the switch on
\* state.taskType || "qa"
routeMemory(taskType) ==
  LET type == IF taskType = Undefined THEN "qa" ELSE taskType
  IN CASE type = "writing" -> "handle_writing"
       [] type = "reading" -> "handle_reading"
       [] type \in { "analysis", "reasoning" } ->
            IF type = "analysis" THEN "handle_reading" ELSE "handle_reasoning"
       [] type = "creative" -> "handle_creative"
       [] OTHER -> "handle_qa"

\* analysis sent to the reasoning handler
routeAnalysisAsReasoning(b, taskType) ==
  IF taskType = "analysis" THEN "handle_reasoning"
  ELSE IF b = "pinecone" THEN routePinecone(taskType) ELSE routeMemory(taskType)

route(b, taskType) ==
  IF b = "pinecone" THEN routePinecone(taskType) ELSE routeMemory(taskType)

\* a graph whose entry node leads straight to the classifier
nextNodeSkippingContext(b, node, taskType) ==
  CASE node = "process_files"       -> "classify_task"
    [] node = "generate_embeddings" -> "classify_task"
    [] node = "classify_task"       -> route(b, taskType)
    [] node \in Handlers            -> "END"

\* a graph that runs the context stage again after it has run
nextNodeRepeatingContext(b, node, taskType) ==
  CASE node = "process_files"       -> "generate_embeddings"
    [] node = "generate_embeddings" -> "generate_embeddings"
    [] node = "classify_task"       -> route(b, taskType)
    [] node \in Handlers            -> "END"

\* the edges of the compiled graph: the node that follows `node`
nextNode(b, node, taskType) ==
  CASE node = "process_files"       -> "generate_embeddings"
    [] node = "generate_embeddings" -> "classify_task"
    [] node = "classify_task"       -> route(b, taskType)
    [] node \in Handlers            -> "END"

----------------------------------------------------------------------------
(* Reasoning steps *)


RECURSIVE split(_)
\* response.split("\n")
split(s) ==
  IF \A i \in 1..Len(s) : s[i] # "\n"
    THEN << s >>
    ELSE LET i == CHOOSE k \in 1..Len(s) :
                    s[k] = "\n" /\ \A j \in 1..(k - 1) : s[j] # "\n"
         IN << SubSeq(s, 1, i - 1) >> \o split(SubSeq(s, i + 1, Len(s)))

\* ^prefix, case-insensitive (prefix given in lower case)
startsWith(line, prefix) ==
  /\ Len(line) >= Len(prefix)
  /\ toLowerCase(SubSeq(line, 1, Len(prefix))) = prefix

\* \d+[enders] at position `from` of the line
digitsThen(line, from, enders) ==
  \E j \in from..(Len(line) - 1) :
    /\ \A k \in from..j : line[k] \in Digits
    /\ line[j + 1] \in enders

\* the bullet alternative of the step pattern: the in-process variant has
\* U+2022, the Pinecone variant the three characters U+201A U+00C4 U+00A2
bullet(b) ==
  IF b = "pinecone" THEN << "U+201A", "U+00C4", "U+00A2" >> ELSE << "U+2022" >>

kwStep == << "s", "t", "e", "p", " " >>
kwReasoningColon == << "r", "e", "a", "s", "o", "n", "i", "n", "g", ":" >>

\* /^(step \d+[:]|<bullet>|\d+[.)])/i
matchesStepMarker(b, line) ==
  \/ startsWith(line, kwStep) /\ digitsThen(line, Len(kwStep) + 1, { ":" })
  \/ startsWith(line, bullet(b))
  \/ digitsThen(line, 1, { ".", ")" })

\* the test extractReasoningSteps applies to a line
isStepLine(b, line) ==
  \/ matchesStepMarker(b, line)
  \/ IF b = "pinecone"
       THEN startsWith(line, kwReasoningColon)
       ELSE includes(toLowerCase(line), kwReasoningColon)

extractReasoningSteps(b, response) ==
  LET lines == split(response)
      kept  == SelectSeq(lines, LAMBDA line : isStepLine(b, line))
      steps == [i \in 1..Len(kept) |-> trim(kept[i])]
  IN IF Len(steps) > 0 THEN steps ELSE << response >>

----------------------------------------------------------------------------
(* Handlers *)

\* the label a handler puts before the provider's text (the leading emoji
\* of the source is left out)
handlerLabel(b, node) ==
  CASE node = "handle_writing"   -> << "Writing Assistant:", "\n" >>
    [] node = "handle_reading"   ->
         IF b = "pinecone" THEN << "Reading Assistant:", "\n" >> ELSE << >>
    [] node = "handle_qa"        -> << >>
    [] node = "handle_reasoning" -> << "Reasoning Process:", "\n" >>
    [] node = "handle_creative"  ->
         IF b = "pinecone" THEN << "Creative Assistant:", "\n" >>
                           ELSE << "Creative Response:", "\n" >>

\* the `task` a handler tags its response record with
handlerTask(node) ==
  CASE node = "handle_writing"   -> "writing"
    [] node = "handle_reading"   -> "reading"
    [] node = "handle_qa"        -> "qa"
    [] node = "handle_reasoning" -> "reasoning"
    [] node = "handle_creative"  -> "creative"

\* whether the handler writes its response to the memory store
storesResponse(b, node) ==
  IF b = "pinecone" THEN node \in Handlers
  ELSE node \in { "handle_writing", "handle_qa" }

\* the new turns put in front of the history instead of behind it
prependTurns(conversationHistory, input, responseText) ==
  << [role |-> "user", content |-> input],
     [role |-> "assistant", content |-> responseText] >> \o conversationHistory

\* [...conversationHistory, {role: "user", ...}, {role: "assistant", ...}]
appendTurns(conversationHistory, input, responseText) ==
  conversationHistory \o << [role |-> "user", content |-> input],
                            [role |-> "assistant", content |-> responseText] >>

\* a handler that also writes its own task into taskType
handlerReturnRetagging(b, node, s, responseText) ==
  [response |-> Some(handlerLabel(b, node) \o responseText),
   conversationHistory |-> appendTurns(s.conversationHistory, s.input, responseText),
   reasoningSteps |-> IF node = "handle_reasoning"
                        THEN Some(extractReasoningSteps(b, responseText))
                        ELSE s.reasoningSteps,
   taskType |-> handlerTask(node)]

\* what a handler returns to the graph after a successful completion
handlerReturn(b, node, s, responseText) ==
  LET base == [response |-> Some(handlerLabel(b, node) \o responseText),
               conversationHistory |->
                 appendTurns(s.conversationHistory, s.input, responseText)]
  IN IF node = "handle_reasoning"
       THEN [response |-> base.response,
             conversationHistory |-> base.conversationHistory,
             reasoningSteps |-> Some(extractReasoningSteps(b, responseText))]
     ELSE IF node = "handle_creative" /\ b = "pinecone"
       THEN [s EXCEPT !.response = base.response,
                      !.conversationHistory = base.conversationHistory]
     ELSE base

\* the graph writes the keys a node returned into the state
merge(s, patch) ==
  [f \in DOMAIN s |-> IF f \in DOMAIN patch THEN patch[f] ELSE s[f]]

----------------------------------------------------------------------------
(* runAdvancedAIWorkflow *)

NoResult == [returned |-> FALSE]

\* the value returned when app.invoke resolved with final state s
successResult(b, s) ==
  [returned |-> TRUE,
   success |-> TRUE,
   response |-> s.response,
   conversationHistory |-> Some(s.conversationHistory),
   taskType |-> s.taskType,
   reasoningSteps |-> s.reasoningSteps,
   similarContent |-> s.similarContent,
   memoryContext |-> IF b = "pinecone" THEN s.memoryContext ELSE None,
   error |-> ""]

\* a catch block that hands back the turn it was working on
failureResultWithTurn ==
  [returned |-> TRUE,
   success |-> FALSE,
   response |-> None,
   conversationHistory |->
     Some(Append(st.conversationHistory, [role |-> "user", content |-> st.input])),
   taskType |-> Undefined,
   reasoningSteps |-> None,
   similarContent |-> None,
   memoryContext |-> None,
   error |-> "Failed to process request"]

\* the value returned from the catch block
failureResult ==
  [returned |-> TRUE,
   success |-> FALSE,
   response |-> None,
   conversationHistory |-> None,
   taskType |-> Undefined,
   reasoningSteps |-> None,
   similarContent |-> None,
   memoryContext |-> None,
   error |-> "Failed to process request"]

----------------------------------------------------------------------------
(* Requests *)

\* the request texts
Inputs ==
  { << "W", "r", "i", "t", "e", " ", "o", "d", "e" >>,
    << "S", "u", "m", "m", "a", "r", "i", "z", "e" >>,
    << "t", "h", "i", "n", "k" >>,
    << "a", " ", "s", "t", "o", "r", "y" >>,
    << "h", "i" >> }

\* the texts a completion provider answers with
Responses ==
  { << "o", "k" >>,
    << "1", ".", " ", "a", "\n", "b" >> }

\* the replies of the classification model
Replies ==
  { ReplyFailed,
    Reply(<< "q", "a" >>),
    Reply(<< "a", "n", "a", "l", "y", "s", "i", "s" >>),
    Reply(<< " ", "C", "r", "e", "a", "t", "i", "v", "e", "\n" >>),
    Reply(<< "m", "a", "y", "b", "e" >>) }

\* the histories a caller sends
Histories ==
  { << >>,
    << [role |-> "user", content |-> << "h", "i" >>],
       [role |-> "assistant", content |-> << "o", "k" >>] >> }

\* the uploaded files: path p is the p-th file of the request
FileDigit == << "1", "2", "3", "4", "5", "6", "7", "8", "9" >>
fileName(p) == << "f", FileDigit[p] >>
fileContent(p) ==
  IF p % 2 = 1 THEN << "d", "o", "c" >> ELSE << "d", "a", "t", "a", "!" >>

\* the AIState app.invoke starts from
initialState(input, files, conversationHistory) ==
  [input |-> input,
   files |-> files,
   fileContents |-> None,
   response |-> None,
   conversationHistory |-> conversationHistory,
   taskType |-> Undefined,
   embeddings |-> None,
   similarContent |-> None,
   reasoningSteps |-> None,
   memoryContext |-> None]

\* the outcomes of the calls made so far: per file path whether it was read
\* and whether its content was stored, then the handler's completion call
\* and its store of the response
NoCalls == [files |-> << >>, completion |-> "none", store |-> "none"]

FileCall(path, read, stored) == [path |-> path, read |-> read, stored |-> stored]

\* one memory query: the text asked for, the cap, the strings returned and
\* whether its embedding and backend calls went through
Query(text, topK, found, ok) ==
  [text |-> text, topK |-> topK, found |-> found, ok |-> ok]

\* no request at the route (at: how far POST has come; files, written: the
\* uploads of the request and how many of them were written to disk; invoked:
\* runAdvancedAIWorkflow was called; status: the HTTP status answered, 0 for
\* none yet; stats: the statistics a memory-stats request was answered with)
NoRequest ==
  [at |-> "idle", action |-> "", input |-> << >>, files |-> 0, written |-> 0,
   invoked |-> FALSE, status |-> 0, body |-> "none", stats |-> None]

\* nothing asked of the statistics and clear functions yet
\* (backendOk: the backend call of the last clear went through; emptied: a
\* clear has gone through; queriesAtClear: the queries made
\* before the last such clear; statsAfterClear: the statistics are younger
\* than that clear; clearedAt, awaiting: where the invocation stood when the
\* last clear ran)
NoAdmin == [clears |-> 0, lastClear |-> "none", backendOk |-> FALSE, emptied |-> FALSE,
            queriesAtClear |-> 0, stats |-> None, statsAfterClear |-> FALSE,
            clearedAt |-> "none", awaiting |-> "none"]

\* no second invocation
NoFrame == [id |-> 0]

NoLocals ==
  [fileContents |-> << >>, pending |-> << >>, embedding |-> None,
   similarity |-> None, similarContent |-> << >>, responseText |-> << >>]

Init ==
  /\ backend \in { "pinecone", "memory" }
  /\ env = EnvNames
  /\ http = NoRequest
  /\ admin = NoAdmin
  /\ other = NoFrame
  /\ memoryStore = << >>
  /\ index = { }
  /\ nextId = 1
  /\ callerHistory \in Histories
  /\ st = initialState(<< >>, << >>, << >>)
  /\ pc = "idle"
  /\ step = "none"
  /\ fileIdx = 0
  /\ local = NoLocals
  /\ modelReply = NoReply
  /\ ran = << >>
  /\ finished = << >>
  /\ calls = NoCalls
  /\ queries = << >>
  /\ result = NoResult

\* the first await of each node
firstStep(node) ==
  CASE node = "process_files"       -> "read"
    [] node = "generate_embeddings" -> "embed"
    [] node = "classify_task"       -> "invoke"
    [] node \in Handlers            -> "invoke"
    [] node = "END"                 -> "none"

\* node `pc` returned `patch`: the graph merges it and runs the next node, or
\* app.invoke resolves and runAdvancedAIWorkflow returns the success value
NodeReturns(patch) ==
  LET s    == merge(st, patch)
      next == nextNode(backend, pc, s.taskType)
  IN /\ st' = s
     /\ finished' = Append(finished, pc)
     /\ local' = NoLocals
     /\ step' = firstStep(next)
     /\ IF next = "END"
          THEN /\ pc' = "returned"
               /\ ran' = ran
               /\ result' = successResult(backend, s)
          ELSE /\ pc' = next
               /\ ran' = Append(ran, next)
               /\ result' = result

\* node `pc` threw: app.invoke rejects and the catch block answers
NodeThrows ==
  /\ finished' = Append(finished, pc)
  /\ local' = NoLocals
  /\ step' = "none"
  /\ pc' = "returned"
  /\ result' = failureResult
  /\ UNCHANGED << st, ran >>

\* runAdvancedAIWorkflow(input, files, conversationHistory) is called, with
\* one of the inputs and one of the lists of file paths
InvokeWith(inputs, fileLists) ==
  /\ pc = "idle"
  /\ \E input \in inputs, files \in fileLists :
       st' = initialState(input, files, callerHistory)
  /\ pc' = "process_files"
  /\ step' = "read"
  /\ fileIdx' = 1
  /\ ran' = << "process_files" >>
  /\ UNCHANGED << http, env, admin, other, backend, memoryStore, index, nextId, callerHistory, local,
                  modelReply, finished, calls, queries, result >>

Invoke == InvokeWith(Inputs, { [i \in 1..n |-> i] : n \in 0..MaxFiles })

----------------------------------------------------------------------------
(* processFiles *)

\* `await readFile(filePath)` of the loop returns or throws
ReadFile ==
  /\ pc = "process_files" /\ step = "read"
  /\ fileIdx <= Len(st.files)
  /\ \E readOk \in BOOLEAN :
       IF readOk
         THEN LET p == st.files[fileIdx]
              IN /\ local' = [local EXCEPT
                               !.fileContents =
                                  Append(@, [name |-> fileName(p),
                                             content |-> fileContent(p)]),
                               !.pending = fileContent(p)]
                 /\ step' = "store"
                 /\ fileIdx' = fileIdx
                 /\ calls' = [calls EXCEPT !.files = Append(@, FileCall(p, TRUE, FALSE))]
         ELSE /\ fileIdx' = fileIdx + 1
              /\ calls' = [calls EXCEPT
                             !.files = Append(@, FileCall(st.files[fileIdx], FALSE, FALSE))]
              /\ UNCHANGED << local, step >>
  /\ UNCHANGED << http, env, admin, other, backend, memoryStore, index, nextId, callerHistory, st, pc,
                  modelReply, ran, finished, queries, result >>

\* the store of the file just read completes: storeInPinecone, or embedQuery
\* followed by memoryStore.set; a throw is caught by the loop's try/catch
StoreFile ==
  /\ pc = "process_files" /\ step = "store"
  /\ \E embedOk \in BOOLEAN, upsertOk \in BOOLEAN :
       /\ (backend = "memory" \/ ~embedOk) => upsertOk
       /\ IF backend = "pinecone"
            THEN LET r == storeInPinecone(index, nextId, local.pending,
                                          [type |-> "file", task |-> ""],
                                          embedOk, upsertOk)
                 IN /\ index' = r.index
                    /\ nextId' = IF embedOk THEN nextId + 1 ELSE nextId
                    /\ UNCHANGED memoryStore
            ELSE /\ memoryStore' = IF embedOk
                                     THEN memoryStoreSet(memoryStore, nextId, local.pending)
                                     ELSE memoryStore
                 /\ nextId' = IF embedOk THEN nextId + 1 ELSE nextId
                 /\ UNCHANGED index
       /\ calls' = [calls EXCEPT !.files[Len(calls.files)].stored = embedOk /\ upsertOk]
  /\ local' = [local EXCEPT !.pending = << >>]
  /\ fileIdx' = fileIdx + 1
  /\ step' = "read"
  /\ UNCHANGED << http, env, admin, other, backend, callerHistory, st, pc, modelReply, ran, finished,
                  queries, result >>

\* the loop is over (or there were no files): return { fileContents }
ProcessFilesReturn ==
  /\ pc = "process_files" /\ step = "read"
  /\ fileIdx > Len(st.files)
  /\ NodeReturns([fileContents |-> Some(local.fileContents)])
  /\ fileIdx' = 0
  /\ UNCHANGED << http, env, admin, other, backend, memoryStore, index, nextId, callerHistory, modelReply,
                  calls, queries >>

----------------------------------------------------------------------------
(* generateEmbeddings *)

\* number of history characters searched with
ContextLen == 1000
\* most strings kept in similarContent by the Pinecone variant
MaxSimilar == 5

RECURSIVE unique(_)
\* Array.from(new Set(xs))
unique(xs) ==
  IF xs = << >> THEN << >>
  ELSE LET init == unique(SubSeq(xs, 1, Len(xs) - 1))
           last == xs[Len(xs)]
       IN IF \E i \in 1..Len(init) : init[i] = last THEN init ELSE Append(init, last)

\* state.conversationHistory.map(msg => msg.content).join(" ").substring(0, 1000)
conversationContext(conversationHistory) ==
  substring(join([i \in 1..Len(conversationHistory) |-> conversationHistory[i].content],
                 << " " >>),
            ContextLen)

ContextHeader == << "Relevant context from memory:", "\n" >>

\* a merge that puts the history-based matches first
pineconeContextHistoryFirst(embedding, similarContent, historySimilarContent) ==
  LET uniqueSimilarContent ==
        slice(unique(historySimilarContent \o similarContent), MaxSimilar)
  IN [embeddings |-> Some(embedding),
      similarContent |-> Some(uniqueSimilarContent),
      memoryContext |->
        Some(IF Len(uniqueSimilarContent) > 0
               THEN ContextHeader \o join(uniqueSimilarContent, << "\n", "\n" >>)
               ELSE << >>)]

\* what the Pinecone variant returns from its two search results
pineconeContext(embedding, similarContent, historySimilarContent) ==
  LET uniqueSimilarContent ==
        slice(unique(similarContent \o historySimilarContent), MaxSimilar)
  IN [embeddings |-> Some(embedding),
      similarContent |-> Some(uniqueSimilarContent),
      memoryContext |->
        Some(IF Len(uniqueSimilarContent) > 0
               THEN ContextHeader \o join(uniqueSimilarContent, << "\n", "\n" >>)
               ELSE << >>)]

\* `await embedQuery(state.input)` returns or throws; the in-process variant
\* then scans memoryStore and returns
EmbedInput ==
  /\ pc = "generate_embeddings" /\ step = "embed"
  /\ \E embedOk \in BOOLEAN :
       IF ~embedOk
         THEN /\ NodeReturns([x \in { } |-> x])
              /\ UNCHANGED queries
         ELSE IF backend = "memory"
           THEN LET found == memorySimilarContent(memoryStore, embedQuery(st.input))
                IN /\ NodeReturns([embeddings |-> Some(embedQuery(st.input)),
                                   similarContent |-> Some(found)])
                   /\ queries' = Append(queries, Query(st.input, DefaultTopK, found, TRUE))
           ELSE /\ local' = [local EXCEPT !.embedding = Some(embedQuery(st.input))]
                /\ step' = "search_input"
                /\ UNCHANGED << st, pc, ran, finished, queries, result >>
  /\ UNCHANGED << http, env, admin, other, backend, memoryStore, index, nextId, callerHistory, fileIdx,
                  modelReply, calls >>

\* `await searchPinecone(state.input)` returns
SearchInput ==
  /\ pc = "generate_embeddings" /\ step = "search_input"
  /\ \E embedOk \in BOOLEAN, queryOk \in BOOLEAN :
       /\ ~embedOk => queryOk
       /\ \E found \in searchPinecone(index, st.input, DefaultTopK, embedOk, queryOk) :
            /\ local' = [local EXCEPT !.similarContent = found]
            /\ queries' = Append(queries, Query(st.input, DefaultTopK, found,
                                                embedOk /\ queryOk))
  /\ step' = "search_history"
  /\ UNCHANGED << http, env, admin, other, backend, memoryStore, index, nextId, callerHistory, st, pc,
                  fileIdx, modelReply, ran, finished, calls, result >>

\* `await searchPinecone(conversationContext)` returns and the node returns
SearchHistory ==
  /\ pc = "generate_embeddings" /\ step = "search_history"
  /\ \E embedOk \in BOOLEAN, queryOk \in BOOLEAN :
       /\ ~embedOk => queryOk
       /\ \E found \in searchPinecone(index, conversationContext(st.conversationHistory),
                                      DefaultTopK, embedOk, queryOk) :
            /\ NodeReturns(pineconeContext(local.embedding[1], local.similarContent,
                                           found))
            /\ queries' = Append(queries,
                                 Query(conversationContext(st.conversationHistory),
                                       DefaultTopK, found, embedOk /\ queryOk))
  /\ UNCHANGED << http, env, admin, other, backend, memoryStore, index, nextId, callerHistory, fileIdx,
                  modelReply, calls >>

----------------------------------------------------------------------------
(* classifyTask *)

\* the classification model answers (or throws, or is not asked at all), the
\* node returns the task type and the conditional edge picks the handler
ClassifyFrom(replies) ==
  /\ pc = "classify_task" /\ step = "invoke"
  /\ \E reply \in replies \cup { NoReply } :
       /\ reply.called <=> consultsModel(backend, st.embeddings)
       /\ modelReply' = reply
       /\ \E taskType \in { classifyTask(backend, st.input, st.fileContents, reply) } :
            NodeReturns(IF backend = "pinecone"
                          THEN [st EXCEPT !.taskType = taskType]
                          ELSE [taskType |-> taskType])
  /\ UNCHANGED << http, env, admin, other, backend, memoryStore, index, nextId, callerHistory, fileIdx,
                  calls, queries >>

Classify == ClassifyFrom(Replies)

----------------------------------------------------------------------------
(* handlers *)

\* a completion whose failure takes back what the invocation has stored
CompleteFromRollingBack(responses) ==
  /\ pc \in Handlers /\ step = "invoke"
  /\ calls' = [calls EXCEPT !.completion = "failed"]
  /\ NodeThrows
  /\ memoryStore' = << >>
  /\ index' = { }
  /\ UNCHANGED << http, env, admin, other, backend, nextId, callerHistory, fileIdx,
                  modelReply, queries >>

\* the completion provider of the handler answers or throws.  A throw is
\* rethrown by the handler's catch block.  An answer is stored first by the
\* handlers that store, and returned at once by the others.
CompleteFrom(responses) ==
  /\ pc \in Handlers /\ step = "invoke"
  /\ \E completionOk \in BOOLEAN :
       /\ calls' = [calls EXCEPT !.completion = IF completionOk THEN "ok" ELSE "failed"]
       /\ IF ~completionOk
         THEN NodeThrows
         ELSE \E responseText \in responses :
                IF storesResponse(backend, pc)
                  THEN /\ local' = [local EXCEPT !.responseText = responseText]
                       /\ step' = "store"
                       /\ UNCHANGED << st, pc, ran, finished, result >>
                  ELSE NodeReturns(handlerReturn(backend, pc, st, responseText))
  /\ UNCHANGED << http, env, admin, other, backend, memoryStore, index, nextId, callerHistory, fileIdx,
                  modelReply, queries >>

Complete == CompleteFrom(Responses)

\* the store of the response completes and the handler returns
StoreResponse ==
  /\ pc \in Handlers /\ step = "store"
  /\ \E embedOk \in BOOLEAN, upsertOk \in BOOLEAN :
       /\ (backend = "memory" \/ ~embedOk) => upsertOk
       /\ calls' = [calls EXCEPT !.store = IF embedOk /\ upsertOk THEN "ok" ELSE "failed"]
       /\ IF backend = "pinecone"
            THEN LET r == storeInPinecone(index, nextId, local.responseText,
                                          [type |-> "response", task |-> handlerTask(pc)],
                                          embedOk, upsertOk)
                 IN /\ index' = r.index
                    /\ nextId' = IF embedOk THEN nextId + 1 ELSE nextId
                    /\ UNCHANGED memoryStore
                    /\ IF r.threw
                         THEN NodeThrows
                         ELSE NodeReturns(handlerReturn(backend, pc, st, local.responseText))
            ELSE /\ memoryStore' = IF embedOk
                                     THEN memoryStoreSet(memoryStore, nextId,
                                                         local.responseText)
                                     ELSE memoryStore
                 /\ nextId' = IF embedOk THEN nextId + 1 ELSE nextId
                 /\ UNCHANGED index
                 /\ NodeReturns(handlerReturn(backend, pc, st, local.responseText))
  /\ UNCHANGED << http, env, admin, other, backend, callerHistory, fileIdx, modelReply, queries >>

----------------------------------------------------------------------------
(* Specification *)

Next ==
  \/ Invoke
  \/ ReadFile
  \/ StoreFile
  \/ ProcessFilesReturn
  \/ EmbedInput
  \/ SearchInput
  \/ SearchHistory
  \/ Classify
  \/ Complete
  \/ StoreResponse

Spec == Init /\ [][Next]_vars

----------------------------------------------------------------------------
(* The classifier on its own: classifyTask entered with any request text,   *)
(* with or without file contents and with or without an input embedding.   *)

AllInputs ==
  Inputs \cup
  { << "c", "r", "e", "a", "t", "e", " ", "l", "o", "g", "i", "c" >>,
    << "r", "e", "c", "o", "m", "p", "o", "s", "e" >>,
    << "a", "n", "a", "l", "y", "z", "e", " ", "i", "t" >>,
    << "r", "e", "a", "s", "o", "n", "a", "b", "l", "e" >>,
    << "I", "m", "a", "g", "i", "n", "e" >>,
    << "c", "r", "e", "a", "t", "i", "v", "e" >>,
    << "L", "O", "G", "I", "C" >>,
    << "w", "r", "i", "t" >>,
    << >> }

AllReplies ==
  Replies \cup
  { Reply(CategoryText[c]) : c \in Categories } \cup
  { Reply(<< "W", "r", "i", "t", "i", "n", "g" >>),
    Reply(<< "\t", "r", "e", "a", "d", "i", "n", "g", " " >>),
    Reply(<< "q", "a", "." >>),
    Reply(<< >>) }

InitClassify ==
  /\ backend \in { "pinecone", "memory" }
  /\ env = EnvNames
  /\ http = NoRequest
  /\ admin = NoAdmin
  /\ other = NoFrame
  /\ memoryStore = << >>
  /\ index = { }
  /\ nextId = 1
  /\ callerHistory = << >>
  /\ \E input \in AllInputs, n \in 0..1, embedded \in BOOLEAN :
       /\ st = [initialState(input, [i \in 1..n |-> i], << >>) EXCEPT
                  !.fileContents =
                     Some([i \in 1..n |-> [name |-> fileName(i),
                                           content |-> fileContent(i)]]),
                  !.embeddings =
                     IF embedded THEN Some(embedQuery(input)) ELSE None,
                  !.similarContent = IF embedded THEN Some(<< >>) ELSE None,
                  !.memoryContext =
                     IF embedded /\ backend = "pinecone" THEN Some(<< >>) ELSE None]
       /\ queries =
            IF ~embedded THEN << >>
            ELSE IF backend = "memory"
              THEN << Query(input, DefaultTopK, << >>, TRUE) >>
              ELSE << Query(input, DefaultTopK, << >>, TRUE),
                      Query(<< >>, DefaultTopK, << >>, TRUE) >>
  /\ pc = "classify_task"
  /\ step = "invoke"
  /\ fileIdx = 0
  /\ local = NoLocals
  /\ modelReply = NoReply
  /\ ran = << "process_files", "generate_embeddings", "classify_task" >>
  /\ finished = << "process_files", "generate_embeddings" >>
  /\ calls = [NoCalls EXCEPT !.files = [i \in 1..Len(st.files) |-> FileCall(i, TRUE, FALSE)]]
  /\ result = NoResult

ClassifyAny == ClassifyFrom(AllReplies)

NextClassify == ClassifyAny

SpecClassify == InitClassify /\ [][NextClassify]_vars

----------------------------------------------------------------------------
(* Statistics and clearing *)

\* most clear calls followed
MaxClears == 2

\* clearPineconeIndex(): deleteOk is the outcome of index.deleteAll()
clearPineconeIndex(idx, deleteOk) ==
  IF deleteOk THEN [index |-> { }, answer |-> "success"]
              ELSE [index |-> idx, answer |-> "error"]

\* clearMemory(): memoryStore.clear()
clearMemory(store) == << >>

\* getPineconeStats(): totalVectors, or the error answer
getPineconeStats(idx, describeOk) ==
  IF describeOk THEN Some(Cardinality(idx)) ELSE None

\* getMemoryStats(): size
getMemoryStats(store) == Some(Len(store))

\* the clear function is called and answers; the in-process clear is answered
\* by the route that calls it
ClearAll ==
  /\ admin.clears < MaxClears
  /\ \E deleteOk \in BOOLEAN :
       /\ backend = "memory" => deleteOk
       /\ IF backend = "pinecone"
            THEN /\ index' = clearPineconeIndex(index, deleteOk).index
                 /\ UNCHANGED memoryStore
            ELSE /\ memoryStore' = clearMemory(memoryStore)
                 /\ UNCHANGED index
       /\ admin' = [admin EXCEPT
                      !.clears = @ + 1,
                      !.lastClear = IF backend = "pinecone"
                                      THEN clearPineconeIndex(index, deleteOk).answer
                                      ELSE "success",
                      !.backendOk = deleteOk,
                      !.emptied = @ \/ deleteOk,
                      !.queriesAtClear = IF deleteOk THEN Len(queries) ELSE @,
                      !.statsAfterClear = IF deleteOk THEN FALSE ELSE @,
                      !.clearedAt = pc,
                      !.awaiting = step]
  /\ UNCHANGED << http, backend, env, other, nextId, callerHistory, st, pc, step, fileIdx,
                  local, modelReply, ran, finished, calls, queries, result >>

\* the statistics function is called and answers
GetStats ==
  /\ \E describeOk \in BOOLEAN :
       /\ backend = "memory" => describeOk
       /\ admin' = [admin EXCEPT
                      !.stats = IF backend = "pinecone"
                                  THEN getPineconeStats(index, describeOk)
                                  ELSE getMemoryStats(memoryStore),
                      !.statsAfterClear = admin.emptied]
  /\ UNCHANGED << http, backend, env, other, memoryStore, index, nextId, callerHistory,
                  st, pc, step, fileIdx, local, modelReply, ran, finished, calls,
                  queries, result >>

----------------------------------------------------------------------------
(* The context stage over a store that earlier requests have filled, with   *)
(* the statistics and clear functions called at any moment.                *)

\* length of one turn of the long conversation
LongTurnLen == 700

\* a conversation whose contents run to more than ContextLen characters
LongHistory ==
  << [role |-> "user", content |-> [i \in 1..LongTurnLen |-> "a"]],
     [role |-> "assistant", content |-> [i \in 1..LongTurnLen |-> "b"]] >>

ContextHistories == Histories \cup { LongHistory }

\* texts stored by earlier requests, in the order they were stored
Seeds ==
  LET doc   == << "d", "o", "c" >>
      data  == << "d", "a", "t", "a", "!" >>
      ok    == << "o", "k" >>
      memo  == << "m", "e", "m", "o", "s", "!" >>
      books == << "n", "o", "t", "e", "b", "o", "o", "k", "s" >>
      poem  == << "a", " ", "p", "o", "e", "m", ".", "." >>
      note  == << "n", "o", "t", "e" >>
  IN { << >>,
       << doc, doc >>,
       << doc, data, ok, memo, books, poem >>,
       << data, doc, note, doc, ok >> }

RECURSIVE seedIndex(_)
\* the index after storeInPinecone of each text
seedIndex(texts) ==
  IF texts = << >> THEN { }
  ELSE storeInPinecone(seedIndex(SubSeq(texts, 1, Len(texts) - 1)), Len(texts),
                       texts[Len(texts)], [type |-> "response", task |-> "qa"],
                       TRUE, TRUE).index

RECURSIVE seedMemory(_)
\* memoryStore after memoryStore.set of each text
seedMemory(texts) ==
  IF texts = << >> THEN << >>
  ELSE memoryStoreSet(seedMemory(SubSeq(texts, 1, Len(texts) - 1)), Len(texts),
                      texts[Len(texts)])

InitContext ==
  /\ backend \in { "pinecone", "memory" }
  /\ env = EnvNames
  /\ http = NoRequest
  /\ admin = NoAdmin
  /\ other = NoFrame
  /\ \E texts \in Seeds :
       /\ index = IF backend = "pinecone" THEN seedIndex(texts) ELSE { }
       /\ memoryStore = IF backend = "memory" THEN seedMemory(texts) ELSE << >>
       /\ nextId = Len(texts) + 1
  /\ callerHistory \in ContextHistories
  /\ \E input \in Inputs :
       st = [initialState(input, << >>, callerHistory) EXCEPT
               !.fileContents = Some(<< >>)]
  /\ pc = "generate_embeddings"
  /\ step = "embed"
  /\ fileIdx = 0
  /\ local = NoLocals
  /\ modelReply = NoReply
  /\ ran = << "process_files", "generate_embeddings" >>
  /\ finished = << "process_files" >>
  /\ calls = NoCalls
  /\ queries = << >>
  /\ result = NoResult

NextContext ==
  \/ EmbedInput
  \/ SearchInput
  \/ SearchHistory
  \/ ClearAll
  \/ GetStats

SpecContext == InitContext /\ [][NextContext]_vars

----------------------------------------------------------------------------
(* Module load: any part of the configuration may be missing.              *)

\* the module is loaded.  The Pinecone variant throws on the first missing
\* name of requiredEnv; the in-process variant checks nothing and hands
\* process.env values to the client constructors, which may or may not throw
\* on an undefined value.
LoadModule ==
  /\ pc = "unloaded"
  /\ IF backend = "pinecone"
       THEN pc' = IF \E i \in 1..Len(requiredEnv) : requiredEnv[i] \notin env
                    THEN "load_failed"
                    ELSE "idle"
       ELSE pc' \in IF configUsed(backend) \subseteq env
                      THEN { "idle" }
                      ELSE { "idle", "load_failed" }
  /\ UNCHANGED << http, backend, env, admin, other, memoryStore, index, nextId,
                  callerHistory, st, step, fileIdx, local, modelReply, ran,
                  finished, calls, queries, result >>

InitStartup ==
  /\ backend \in { "pinecone", "memory" }
  /\ env \in SUBSET EnvNames
  /\ http = NoRequest
  /\ admin = NoAdmin
  /\ other = NoFrame
  /\ memoryStore = << >>
  /\ index = { }
  /\ nextId = 1
  /\ callerHistory \in Histories
  /\ st = initialState(<< >>, << >>, << >>)
  /\ pc = "unloaded"
  /\ step = "none"
  /\ fileIdx = 0
  /\ local = NoLocals
  /\ modelReply = NoReply
  /\ ran = << >>
  /\ finished = << >>
  /\ calls = NoCalls
  /\ queries = << >>
  /\ result = NoResult

NextStartup ==
  \/ LoadModule
  \/ Invoke

SpecStartup == InitStartup /\ [][NextStartup]_vars

----------------------------------------------------------------------------
(* Two invocations in flight at once.  Each call of runAdvancedAIWorkflow   *)
(* has its own state object and locals; the event loop runs one of them    *)
(* from an await to its next await and may then resume the other.  The     *)
(* memory store and the id source are the module's and are shared.         *)

\* the invocation that is not suspended
Running == IF other.id = 2 THEN 1 ELSE 2

\* everything an invocation owns
Frame(id) ==
  [id |-> id, callerHistory |-> callerHistory, st |-> st, pc |-> pc,
   step |-> step, fileIdx |-> fileIdx, local |-> local,
   modelReply |-> modelReply, ran |-> ran, finished |-> finished,
   calls |-> calls, queries |-> queries, result |-> result]

\* one state object that every invocation works on
resumedStateShared(frame) == st

\* the state object the resumed invocation works on: its own
resumedState(frame) == frame.st

\* the running invocation is suspended at its await and the other one resumes
Switch ==
  /\ other.id # 0
  /\ other' = Frame(Running)
  /\ callerHistory' = other.callerHistory
  /\ st' = resumedState(other)
  /\ pc' = other.pc
  /\ step' = other.step
  /\ fileIdx' = other.fileIdx
  /\ local' = other.local
  /\ modelReply' = other.modelReply
  /\ ran' = other.ran
  /\ finished' = other.finished
  /\ calls' = other.calls
  /\ queries' = other.queries
  /\ result' = other.result
  /\ UNCHANGED << http, backend, env, admin, memoryStore, index, nextId >>

\* what the two callers send: the first a request with a file and no history,
\* the second a request with a history and no file
RequestInput ==
  << << "t", "h", "i", "n", "k" >>, << "a", " ", "s", "t", "o", "r", "y" >> >>
RequestFiles == << << 1 >>, << >> >>
RequestHistory ==
  << << >>,
     << [role |-> "user", content |-> << "h", "i" >>],
        [role |-> "assistant", content |-> << "o", "k" >>] >> >>

InvokeConcurrent ==
  InvokeWith({ RequestInput[Running] }, { RequestFiles[Running] })

InitConcurrent ==
  /\ backend \in { "pinecone", "memory" }
  /\ env = EnvNames
  /\ http = NoRequest
  /\ admin = NoAdmin
  /\ memoryStore = << >>
  /\ index = { }
  /\ nextId = 1
  /\ callerHistory = RequestHistory[1]
  /\ st = initialState(<< >>, << >>, << >>)
  /\ pc = "idle"
  /\ step = "none"
  /\ fileIdx = 0
  /\ local = NoLocals
  /\ modelReply = NoReply
  /\ ran = << >>
  /\ finished = << >>
  /\ calls = NoCalls
  /\ queries = << >>
  /\ result = NoResult
  /\ other = [id |-> 2, callerHistory |-> RequestHistory[2],
              st |-> initialState(<< >>, << >>, << >>), pc |-> "idle",
              step |-> "none", fileIdx |-> 0, local |-> NoLocals,
              modelReply |-> NoReply, ran |-> << >>, finished |-> << >>,
              calls |-> NoCalls, queries |-> << >>, result |-> NoResult]

NextConcurrent ==
  \/ InvokeConcurrent
  \/ Switch
  \/ ReadFile
  \/ StoreFile
  \/ ProcessFilesReturn
  \/ EmbedInput
  \/ SearchInput
  \/ SearchHistory
  \/ Classify
  \/ Complete
  \/ StoreResponse

SpecConcurrent == InitConcurrent /\ [][NextConcurrent]_vars

----------------------------------------------------------------------------
(* The reasoning handler on its own: handleReasoningTask entered after a    *)
(* classification as reasoning, the provider answering with any of a set   *)
(* of texts made of marked and unmarked lines.                             *)

\* the lines a provider's answer is made of
StepLines ==
  { << "S", "t", "e", "p", " ", "1", ":", " ", "a" >>,
    << "S", "t", "e", "p", " ", "2", ":", " ", "b", " " >>,
    << "s", "t", "e", "p", " ", "3", ":", " ", "c" >>,
    << "U+2022", " ", "d" >>,
    << "m", "y", " ", "R", "e", "a", "s", "o", "n", "i", "n", "g", ":", " ", "e" >>,
    << "p", "l", "a", "i", "n" >>,
    << "2", ")", " ", "f" >>,
    << "1", "0", ".", " ", "g" >> }

\* most lines in one answer
MaxLines == 3

\* the answers: one to MaxLines lines joined by line feeds
StepResponses ==
  UNION { { join(ls, << "\n" >>) : ls \in [1..n -> StepLines] } : n \in 1..MaxLines }

InitSteps ==
  /\ backend \in { "pinecone", "memory" }
  /\ env = EnvNames
  /\ http = NoRequest
  /\ admin = NoAdmin
  /\ other = NoFrame
  /\ memoryStore = << >>
  /\ index = { }
  /\ nextId = 1
  /\ callerHistory = << >>
  /\ st = [initialState(<< "t", "h", "i", "n", "k" >>, << >>, << >>) EXCEPT
             !.fileContents = Some(<< >>),
             !.taskType = "reasoning"]
  /\ pc = "handle_reasoning"
  /\ step = "invoke"
  /\ fileIdx = 0
  /\ local = NoLocals
  /\ modelReply = IF backend = "pinecone" THEN ReplyFailed ELSE NoReply
  /\ ran = << "process_files", "generate_embeddings", "classify_task",
              "handle_reasoning" >>
  /\ finished = << "process_files", "generate_embeddings", "classify_task" >>
  /\ calls = NoCalls
  /\ queries = << >>
  /\ result = NoResult

CompleteAny == CompleteFrom(StepResponses)

NextSteps ==
  \/ CompleteAny
  \/ StoreResponse

SpecSteps == InitSteps /\ [][NextSteps]_vars

----------------------------------------------------------------------------
(* One invocation whose external calls all return or fail in the end: every *)
(* await of the pipeline is resumed.                                       *)

\* an await of the running invocation is resumed
Resume ==
  \/ ReadFile
  \/ StoreFile
  \/ ProcessFilesReturn
  \/ EmbedInput
  \/ SearchInput
  \/ SearchHistory
  \/ Classify
  \/ Complete
  \/ StoreResponse

\* most file paths the request of this specification carries
MaxLiveFiles == 2

InvokeLive == InvokeWith(Inputs, { [i \in 1..n |-> i] : n \in 0..MaxLiveFiles })

NextLive ==
  \/ InvokeLive
  \/ Resume

SpecLive == Init /\ [][NextLive]_vars /\ WF_vars(Resume)

----------------------------------------------------------------------------
(* The similarity function on its own: the loop body of the in-process     *)
(* generateEmbeddings, entered with any input embedding and any stored     *)
(* embedding.                                                              *)

\* most components of a vector
MaxDim == 2
\* largest absolute value of a component
MaxComponent == 2

Vectors ==
  UNION { [1..n -> (0 - MaxComponent)..MaxComponent] : n \in 0..MaxDim }

InitSimilarity ==
  /\ backend = "memory"
  /\ env = EnvNames
  /\ http = NoRequest
  /\ admin = NoAdmin
  /\ other = NoFrame
  /\ \E b \in Vectors :
       memoryStore = << [id |-> 1, content |-> << "d", "o", "c" >>, embedding |-> b] >>
  /\ index = { }
  /\ nextId = 2
  /\ callerHistory = << >>
  /\ st = [initialState(<< "h", "i" >>, << >>, << >>) EXCEPT
             !.fileContents = Some(<< >>)]
  /\ pc = "generate_embeddings"
  /\ step = "compare"
  /\ fileIdx = 0
  /\ \E a \in Vectors : local = [NoLocals EXCEPT !.embedding = Some(a)]
  /\ modelReply = NoReply
  /\ ran = << "process_files", "generate_embeddings" >>
  /\ finished = << "process_files" >>
  /\ calls = NoCalls
  /\ queries = << >>
  /\ result = NoResult

\* const similarity = cosineSimilarity(embedding, item.embedding)
CompareVectors ==
  /\ pc = "generate_embeddings" /\ step = "compare"
  /\ local' = [local EXCEPT
                 !.similarity =
                    Some(cosineSimilarity(local.embedding[1], memoryStore[1].embedding))]
  /\ step' = "compared"
  /\ UNCHANGED << http, env, admin, other, backend, memoryStore, index, nextId, callerHistory,
                  st, pc, fileIdx, modelReply, ran, finished, calls, queries, result >>

NextSimilarity == CompareVectors

SpecSimilarity == InitSimilarity /\ [][NextSimilarity]_vars

----------------------------------------------------------------------------
(* One invocation with the clear function called at any moment: before it,  *)
(* between two of its awaits, or after it.                                 *)

\* a request to write and a request to think, each with or without a file
InvokeClear ==
  InvokeWith({ << "W", "r", "i", "t", "e", " ", "o", "d", "e" >>,
               << "t", "h", "i", "n", "k" >> },
             { << >>, << 1 >> })

NextClear ==
  \/ InvokeClear
  \/ Resume
  \/ ClearAll

SpecClear == Init /\ [][NextClear]_vars

----------------------------------------------------------------------------
(* The orchestration route: POST of src/app/api/simulate-ai/route.ts in     *)
(* front of the in-process orchestrator, whose clearMemory and             *)
(* getMemoryStats it imports.                                              *)

\* most files uploaded with one request
MaxUploads == 1

\* the values of the form field `action` (the empty text: field absent)
RouteActions == { "", "clear-memory", "memory-stats", "other" }

\* the values of the form field `input` (the empty text also stands for an
\* absent field: both are falsy)
RouteInputs ==
  { << >>,
    << "h", "i" >>,
    << "W", "r", "i", "t", "e", " ", "o", "d", "e" >> }

\* a route that lets every request through to the workflow
requiresInputNever(input, action) == FALSE

\* !input && action !== "clear-memory" && action !== "memory-stats"
requiresInput(input, action) ==
  input = << >> /\ action # "clear-memory" /\ action # "memory-stats"

\* the route answers
Respond(status, body) ==
  [http EXCEPT !.at = "responded", !.status = status, !.body = body]

\* POST is called: the form is read (a throw of formData() or of JSON.parse
\* goes to the catch block), the memory actions are served, a request without
\* input is turned away, any other request goes on to save its uploads
RoutePost ==
  /\ http.at = "idle" /\ pc = "idle"
  /\ \E action \in RouteActions, input \in RouteInputs, n \in 0..MaxUploads,
        parseOk \in BOOLEAN :
       LET req == [NoRequest EXCEPT !.action = action, !.input = input, !.files = n]
       IN IF ~parseOk
            THEN /\ http' = [req EXCEPT !.at = "responded", !.status = 500,
                                        !.body = "Internal server error"]
                 /\ UNCHANGED memoryStore
          ELSE IF action = "clear-memory"
            THEN /\ memoryStore' = clearMemory(memoryStore)
                 /\ http' = [req EXCEPT !.at = "responded", !.status = 200,
                                        !.body = "Memory cleared"]
          ELSE IF action = "memory-stats"
            THEN /\ http' = [req EXCEPT !.at = "responded", !.status = 200,
                                        !.body = "stats",
                                        !.stats = getMemoryStats(memoryStore)]
                 /\ UNCHANGED memoryStore
          ELSE IF requiresInput(input, action)
            THEN /\ http' = [req EXCEPT !.at = "responded", !.status = 400,
                                        !.body = "Input is required"]
                 /\ UNCHANGED memoryStore
          ELSE /\ http' = [req EXCEPT !.at = "saving"]
               /\ UNCHANGED memoryStore
  /\ UNCHANGED << backend, env, admin, other, index, nextId, callerHistory, st, pc,
                  step, fileIdx, local, modelReply, ran, finished, calls, queries,
                  result >>

\* the next upload is written to the upload directory, or the write throws
WriteUpload ==
  /\ http.at = "saving"
  /\ http.written < http.files
  /\ \E writeOk \in BOOLEAN :
       http' = IF writeOk THEN [http EXCEPT !.written = @ + 1]
               ELSE Respond(500, "Internal server error")
  /\ UNCHANGED << backend, env, admin, other, memoryStore, index, nextId,
                  callerHistory, st, pc, step, fileIdx, local, modelReply, ran,
                  finished, calls, queries, result >>

\* runAdvancedAIWorkflow(input, filePaths, conversationHistory)
RouteInvoke ==
  /\ http.at = "saving"
  /\ http.written = http.files
  /\ pc = "idle"
  /\ http' = [http EXCEPT !.at = "running", !.invoked = TRUE]
  /\ st' = initialState(http.input, [i \in 1..http.written |-> i], callerHistory)
  /\ pc' = "process_files"
  /\ step' = "read"
  /\ fileIdx' = 1
  /\ ran' = << "process_files" >>
  /\ UNCHANGED << backend, env, admin, other, memoryStore, index, nextId,
                  callerHistory, local, modelReply, finished, calls, queries, result >>

\* the workflow has returned and the route answers with its result
RouteRespond ==
  /\ http.at = "running"
  /\ pc = "returned"
  /\ http' = IF result.success THEN Respond(200, "response")
             ELSE Respond(500, "Failed to process request")
  /\ UNCHANGED << backend, env, admin, other, memoryStore, index, nextId,
                  callerHistory, st, pc, step, fileIdx, local, modelReply, ran,
                  finished, calls, queries, result >>

InitRoute ==
  /\ backend = "memory"
  /\ env = EnvNames
  /\ http = NoRequest
  /\ admin = NoAdmin
  /\ other = NoFrame
  /\ \E texts \in Seeds :
       /\ memoryStore = seedMemory(texts)
       /\ nextId = Len(texts) + 1
  /\ index = { }
  /\ callerHistory \in Histories
  /\ st = initialState(<< >>, << >>, << >>)
  /\ pc = "idle"
  /\ step = "none"
  /\ fileIdx = 0
  /\ local = NoLocals
  /\ modelReply = NoReply
  /\ ran = << >>
  /\ finished = << >>
  /\ calls = NoCalls
  /\ queries = << >>
  /\ result = NoResult

\* the awaits of the in-process orchestrator are resumed between the steps of
\* the route
NextRoute ==
  \/ RoutePost
  \/ WriteUpload
  \/ RouteInvoke
  \/ ReadFile
  \/ StoreFile
  \/ ProcessFilesReturn
  \/ EmbedInput
  \/ Classify
  \/ Complete
  \/ StoreResponse
  \/ RouteRespond

SpecRoute == InitRoute /\ [][NextRoute]_vars

----------------------------------------------------------------------------
(* Claims *)

InvocationFailed == pc = "returned" /\ result.returned /\ ~result.success
InvocationSucceeded == pc = "returned" /\ result.returned /\ result.success

\* C1: when the completion call of the dispatched handler fails, the
\* invocation returns success = false with a non-empty error, no response and
\* no history, and the history the caller supplied is as it was: the state
\* still holds exactly the caller's turns.
C1_FailureResult ==
  (pc = "returned" /\ calls.completion = "failed") =>
    /\ InvocationFailed
    /\ result.error # ""
    /\ result.response = None
    /\ result.conversationHistory = None
    /\ st.conversationHistory = callerHistory

C1_Witness ==
  /\ pc = "returned"
  /\ calls.completion = "failed"
  /\ callerHistory # << >>

Mentions(input, word) == includes(toLowerCase(input), word)

\* the category the keyword rules give, in the precedence of the claim
RuleCategory(input, attachments) ==
  IF \E w \in { kwWrite, kwCreate, kwCompose } : Mentions(input, w)
    THEN "writing"
  ELSE IF attachments
    THEN IF \E w \in { kwAnalyze, kwSummarize } : Mentions(input, w)
           THEN "analysis" ELSE "reading"
  ELSE IF \E w \in { kwThink, kwReason, kwLogic } : Mentions(input, w)
    THEN "reasoning"
  ELSE IF \E w \in { kwCreative, kwImagine, kwStory } : Mentions(input, w)
    THEN "creative"
  ELSE "qa"

\* the reply, trimmed and lower-cased, is exactly one of the six tokens
NamesCategory(reply) ==
  /\ reply.called /\ reply.ok
  /\ \E c \in Categories : CategoryText[c] = toLowerCase(trim(reply.content))

Classified == Len(finished) >= 3 /\ finished[3] = "classify_task"

AttachmentsPresent == st.fileContents # None /\ st.fileContents[1] # << >>

\* C3: whenever the model gave no valid category (it failed, answered
\* something else, or was not asked), the task type is the one the keyword
\* rules fix for the input and the presence of attachments; the task type is
\* always one of the six categories.
C3_KeywordRules ==
  Classified =>
    /\ st.taskType \in Categories
    /\ ~NamesCategory(modelReply) =>
         st.taskType = RuleCategory(st.input, AttachmentsPresent)

C3_Witness ==
  /\ Classified
  /\ modelReply = Reply(<< "q", "a", "." >>)
  /\ AttachmentsPresent
  /\ st.taskType = "analysis"

\* C4: whenever the model's reply, trimmed and lower-cased, is one of the six
\* category tokens, that token is the task type, whatever the input says.
C4_ValidReplyWins ==
  (Classified /\ NamesCategory(modelReply)) =>
    CategoryText[st.taskType] = toLowerCase(trim(modelReply.content))

\* the handler the dispatch table of the claim gives for a category
TableHandler ==
  [ writing   |-> "handle_writing",
    reading   |-> "handle_reading",
    analysis  |-> "handle_reading",
    qa        |-> "handle_qa",
    reasoning |-> "handle_reasoning",
    creative  |-> "handle_creative" ]

\* C5: the handler that runs is the one the dispatch table gives for the
\* classified category (analysis goes to the reading handler), no other
\* handler runs, and a missing category is routed to the qa handler.
C5_Dispatch ==
  /\ \A i \in 1..Len(ran) :
       ran[i] \in Handlers =>
         /\ st.taskType \in Categories
         /\ ran[i] = TableHandler[st.taskType]
  /\ route(backend, Undefined) = "handle_qa"

C5_Witness ==
  /\ pc = "handle_reading"
  /\ st.taskType = "analysis"

Stages == << "process_files", "generate_embeddings", "classify_task" >>

\* C6: the stages start in the order file ingestion, context building,
\* classification, one handler; a stage starts only when the one before it
\* has completed, none runs twice, at most one handler runs, and exactly one
\* has run when the invocation succeeded.
C6_StageOrder ==
  /\ Len(ran) <= Len(Stages) + 1
  /\ \A i \in 1..Len(ran) :
       IF i <= Len(Stages) THEN ran[i] = Stages[i] ELSE ran[i] \in Handlers
  /\ Len(finished) <= Len(ran)
  /\ Len(ran) <= Len(finished) + 1
  /\ \A i \in 1..Len(finished) : finished[i] = ran[i]
  /\ pc \notin { "idle", "returned" } =>
       Len(ran) = Len(finished) + 1 /\ ran[Len(ran)] = pc
  /\ pc = "returned" => finished = ran
  /\ InvocationSucceeded => Len(ran) = Len(Stages) + 1

C6_Witness ==
  /\ InvocationSucceeded
  /\ finished = Stages \o << "handle_qa" >>

\* C7: taskType changes only in the classification stage, from undefined to
\* one of the six categories; it is set before any handler starts, no handler
\* changes it, and the result of a successful run carries the category the
\* classifier produced.
C7_TaskTypeOnce ==
  /\ [](pc \in Handlers => st.taskType \in Categories)
  /\ [](InvocationSucceeded =>
          result.taskType =
            classifyTask(backend, st.input, st.fileContents, modelReply))
  /\ [][st'.taskType # st.taskType =>
          /\ pc = "classify_task"
          /\ st.taskType = Undefined
          /\ st'.taskType \in Categories]_vars

C7_Witness ==
  /\ InvocationSucceeded
  /\ result.taskType = "analysis"
  /\ finished[Len(finished)] = "handle_reading"

ResponseText ==
  LET h == result.conversationHistory[1] IN h[Len(h)].content

\* the records of the memory store that hold a response
ResponseRecords ==
  IF backend = "pinecone"
    THEN { r.id : r \in { x \in index : x.metadata.type = "response" } }
    ELSE { memoryStore[i].id :
             i \in { k \in 1..Len(memoryStore) : memoryStore[k].content \in Responses } }

\* C9: every successful handler response creates a memory record holding the
\* response text: unless a call of the store failed, the store has one more
\* response record after the invocation than before it.
C9_ResponseStored ==
  (InvocationSucceeded /\ calls.store # "failed") =>
    /\ Cardinality(ResponseRecords) = 1
    /\ IF backend = "pinecone"
         THEN \E r \in index : r.metadata.fullContent = ResponseText
         ELSE \E i \in 1..Len(memoryStore) : memoryStore[i].content = ResponseText

\* a stored record whose similarity to the query text is above the threshold
\* and whose content is what the query returned as `text`
ReturnedFrom(query, text) ==
  IF backend = "pinecone"
    THEN \E r \in index :
           /\ matchContent(r) = text
           /\ aboveThreshold(cosineSimilarity(embedQuery(query), r.values))
    ELSE \E i \in 1..Len(memoryStore) :
           /\ substring(memoryStore[i].content, SnippetLen) \o Ellipsis = text
           /\ aboveThreshold(cosineSimilarity(embedQuery(query),
                                              memoryStore[i].embedding))

\* C10: a memory query returns at most topK strings, and every string it
\* returns belongs to a record whose similarity to the query is above 0.7.
C10_QueryBounded ==
  \A i \in 1..Len(queries) :
    /\ Len(queries[i].found) <= queries[i].topK
    /\ \A j \in 1..Len(queries[i].found) :
         ReturnedFrom(queries[i].text, queries[i].found[j])

\* the similarities, to the query text, of the stored records whose content a
\* query hands back as `text`
StoredSimilarities(query, text) ==
  IF backend = "pinecone"
    THEN { cosineSimilarity(embedQuery(query), r.values) :
             r \in { x \in index : matchContent(x) = text } }
    ELSE { cosineSimilarity(embedQuery(query), memoryStore[i].embedding) :
             i \in { k \in 1..Len(memoryStore) :
                       substring(memoryStore[k].content, SnippetLen) \o Ellipsis = text } }

\* C11: the strings one memory query returns are ordered most-similar first:
\* a string never comes before one whose record is more similar to the query.
C11_MostSimilarFirst ==
  \A q \in 1..Len(queries) :
    \A i, j \in 1..Len(queries[q].found) :
      i < j =>
        \A si \in StoredSimilarities(queries[q].text, queries[q].found[i]),
           sj \in StoredSimilarities(queries[q].text, queries[q].found[j]) :
          simLeq(sj, si)

\* the context stage has returned
ContextBuilt == Len(finished) >= 2 /\ finished[2] = "generate_embeddings"

\* the contents of the records of the memory store
StoredTexts ==
  IF backend = "pinecone"
    THEN { r.metadata.fullContent : r \in index }
    ELSE { memoryStore[i].content : i \in 1..Len(memoryStore) }

\* the number of records that hold the text
TimesStored(text) ==
  IF backend = "pinecone"
    THEN Cardinality({ r \in index : r.metadata.fullContent = text })
    ELSE Cardinality({ i \in 1..Len(memoryStore) : memoryStore[i].content = text })

\* the string a query hands back for a record holding the text
ReturnedText(text) ==
  IF backend = "pinecone" THEN text ELSE substring(text, SnippetLen) \o Ellipsis

\* the number of places at which `kw` occurs in `s`
Occurrences(s, kw) ==
  Cardinality({ i \in 0..(Len(s) - Len(kw)) : SubSeq(s, i + 1, i + Len(kw)) = kw })

\* C12: a text stored twice appears at most once in the retrieved context
\* (similarContent) and at most once in memoryContext.
C12_OneCopy ==
  ContextBuilt =>
    \A text \in StoredTexts :
      TimesStored(text) >= 2 =>
        /\ st.similarContent # None =>
             Cardinality({ i \in 1..Len(st.similarContent[1]) :
                             st.similarContent[1][i] = ReturnedText(text) }) <= 1
        /\ st.memoryContext # None =>
             Occurrences(st.memoryContext[1], text) <= 1

\* the input embedding of the context stage failed
InputEmbeddingFailed == ContextBuilt /\ st.embeddings = None

\* a memory query of the context stage failed
MemoryQueryFailed == \E q \in 1..Len(queries) : ~queries[q].ok

\* the state fields the context stage does not own
OtherFields ==
  { "input", "files", "fileContents", "response", "conversationHistory",
    "taskType", "reasoningSteps" }

\* C13: when the input embedding or a memory query fails, the context stage
\* still completes, with no retrieved matches and memoryContext the empty
\* string; the stage changes no other state field, and classification
\* follows.
C13_EmptyContext ==
  /\ []((ContextBuilt /\ (InputEmbeddingFailed \/ MemoryQueryFailed)) =>
          /\ st.similarContent \in { None, Some(<< >>) }
          /\ st.memoryContext = Some(<< >>)
          /\ Len(ran) >= 3 /\ ran[3] = "classify_task")
  /\ [][pc = "generate_embeddings" =>
          \A f \in OtherFields : st'[f] = st[f]]_vars

\* file ingestion has returned
FilesIngested == Len(finished) >= 1 /\ finished[1] = "process_files"

\* the paths whose read succeeded, in request order
ReadPaths ==
  LET done == SelectSeq(calls.files, LAMBDA c : c.read)
  IN [i \in 1..Len(done) |-> done[i].path]

\* C14: file ingestion goes through every path of the request in order; a
\* file whose read fails is skipped and the batch goes on; fileContents holds
\* every file that was read exactly once, in request order; and the store
\* holds one record for every file whose store succeeded.
C14_EveryFile ==
  FilesIngested =>
    /\ [i \in 1..Len(calls.files) |-> calls.files[i].path] = st.files
    /\ st.fileContents =
         Some([i \in 1..Len(ReadPaths) |->
                 [name |-> fileName(ReadPaths[i]), content |-> fileContent(ReadPaths[i])]])
    /\ \A c \in 1..Len(calls.files) :
         calls.files[c].stored =>
           /\ calls.files[c].read
           /\ TimesStored(fileContent(calls.files[c].path)) >=
                Cardinality({ d \in 1..Len(calls.files) :
                                /\ calls.files[d].stored
                                /\ fileContent(calls.files[d].path) =
                                     fileContent(calls.files[c].path) })

\* three files, the second unreadable, the first and the third read and stored
C14_Witness ==
  /\ FilesIngested
  /\ Len(st.files) = 3
  /\ ~calls.files[2].read
  /\ calls.files[1].stored /\ calls.files[3].stored

\* the handler that served a finished invocation
ServedBy == finished[Len(finished)]

\* C16: the response of a successful invocation is the provider's text behind
\* a non-empty label, and the label is the served handler's own: no other
\* handler uses it.
C16_Labelled ==
  InvocationSucceeded =>
    LET r == result.response[1]
        k == Len(r) - Len(ResponseText)
    IN /\ k > 0
       /\ SubSeq(r, k + 1, Len(r)) = ResponseText
       /\ \A n \in Handlers \ { ServedBy } :
            handlerLabel(backend, n) # SubSeq(r, 1, k)

\* C15: a clear whose backend call goes through reports success and leaves
\* the store empty, the second as well as the first; after it, every query
\* returns the empty sequence and the statistics report zero records.
C15_ClearAll ==
  /\ admin.backendOk =>
       /\ admin.lastClear = "success"
       /\ index = { } /\ memoryStore = << >>
  /\ admin.emptied =>
       /\ \A q \in (admin.queriesAtClear + 1)..Len(queries) : queries[q].found = << >>
       /\ (admin.statsAfterClear /\ admin.stats # None) => admin.stats = Some(0)

\* a filled store cleared twice, then queried and counted
C15_Witness ==
  /\ nextId > 1
  /\ admin.clears = 2 /\ admin.backendOk /\ admin.lastClear = "success"
  /\ Len(queries) > admin.queriesAtClear
  /\ queries[Len(queries)].ok
  /\ admin.statsAfterClear /\ admin.stats = Some(0)

\* the first place at which x occurs in xs
FirstAt(xs, x) ==
  CHOOSE i \in 1..Len(xs) : xs[i] = x /\ \A j \in 1..(i - 1) : xs[j] # x

\* x occurs in xs
Among(xs, x) == \E i \in 1..Len(xs) : xs[i] = x

\* C19: the context the Pinecone variant retains is drawn from the input-based
\* matches followed by the history-based matches: no string twice, at most 5
\* strings, in first-seen order, a string left out only when 5 earlier ones
\* were kept, and every retained input-based match before every history-only
\* match.
C19_MergedContext ==
  (backend = "pinecone" /\ ContextBuilt /\ st.similarContent # None) =>
    LET a    == queries[1].found
        h    == queries[2].found
        all  == a \o h
        kept == st.similarContent[1]
    IN /\ Len(kept) <= 5
       /\ \A i, j \in 1..Len(kept) : i # j => kept[i] # kept[j]
       /\ \A i \in 1..Len(kept) : Among(all, kept[i])
       /\ \A i, j \in 1..Len(kept) :
            i < j => FirstAt(all, kept[i]) < FirstAt(all, kept[j])
       /\ \A k \in 1..Len(all) :
            ~Among(kept, all[k]) =>
              /\ Len(kept) = 5
              /\ \A i \in 1..Len(kept) : FirstAt(all, kept[i]) < k
       /\ \A i, j \in 1..Len(kept) :
            (Among(a, kept[i]) /\ ~Among(a, kept[j])) => i < j

\* three input-based and three history-based matches, all different: the
\* sixth is cut off
C19_Witness ==
  /\ backend = "pinecone" /\ ContextBuilt /\ st.similarContent # None
  /\ Len(queries[1].found) = 3
  /\ Len(queries[2].found) = 3
  /\ Len(st.similarContent[1]) = 5
  /\ ~Among(st.similarContent[1], queries[2].found[3])

\* the last n characters of s
suffix(s, n) == IF Len(s) <= n THEN s ELSE SubSeq(s, Len(s) - n + 1, Len(s))

\* C20: the text of the second memory query is the most recent part of the
\* concatenated history contents: its last 1000 characters when it is longer
\* than that, all of it otherwise.
C20_RecentSuffix ==
  (backend = "pinecone" /\ Len(queries) >= 2) =>
    queries[2].text =
      suffix(join([i \in 1..Len(callerHistory) |-> callerHistory[i].content],
                  << " " >>),
             1000)

\* C17: no request is processed while a value the module hands to its
\* embedding, completion or memory clients is missing: the module fails at
\* load instead.
C17_FailFast ==
  pc \notin { "unloaded", "load_failed", "idle" } => configUsed(backend) \subseteq env

\* the invocation with the given id, running or suspended
FrameOf(id) == IF other.id = id THEN other ELSE Frame(id)

\* an invocation's working state and result are made of what its own caller
\* sent (and of what the completion and classification models answered it)
OwnWork(f) ==
  /\ f.callerHistory = RequestHistory[f.id]
  /\ f.pc # "idle" =>
       /\ f.st.input = RequestInput[f.id]
       /\ f.st.files = RequestFiles[f.id]
       /\ f.st.fileContents # None =>
            \A i \in 1..Len(f.st.fileContents[1]) :
              \E k \in 1..Len(RequestFiles[f.id]) :
                f.st.fileContents[1][i] =
                  [name |-> fileName(RequestFiles[f.id][k]),
                   content |-> fileContent(RequestFiles[f.id][k])]
  /\ (f.result.returned /\ f.result.success) =>
       \E text \in Responses :
         LET served == f.finished[Len(f.finished)]
         IN /\ f.result.conversationHistory =
                 Some(RequestHistory[f.id] \o
                        << [role |-> "user", content |-> RequestInput[f.id]],
                           [role |-> "assistant", content |-> text] >>)
            /\ f.result.response = Some(handlerLabel(backend, served) \o text)
            /\ f.result.taskType =
                 classifyTask(backend, RequestInput[f.id], f.st.fileContents,
                              f.modelReply)
            /\ f.result.reasoningSteps =
                 IF served = "handle_reasoning"
                   THEN Some(extractReasoningSteps(backend, text))
                   ELSE None

\* C18: however two invocations interleave, the conversationHistory,
\* taskType, reasoningSteps and response each one returns are built from its
\* own input, files and supplied history, never from the other's state.
C18_OwnState == OwnWork(FrameOf(1)) /\ OwnWork(FrameOf(2))

\* both invocations succeeded after overlapping: the second found the file
\* the first had stored, and the first then found the response the second
\* had stored
C18_Witness ==
  /\ backend = "pinecone"
  /\ FrameOf(1).result.returned /\ FrameOf(1).result.success
  /\ FrameOf(2).result.returned /\ FrameOf(2).result.success
  /\ Len(FrameOf(2).queries) >= 1
  /\ Among(FrameOf(2).queries[1].found, fileContent(1))
  /\ Len(FrameOf(1).queries) >= 1
  /\ \E text \in Responses : Among(FrameOf(1).queries[1].found, text)

\* the line opens with "step N:", with a bullet character, with "N." or with
\* "N)", or holds "reasoning:" somewhere (letters in either case)
Marked(line) ==
  LET low == toLowerCase(line)
      number(from, closers) ==
        \E n \in 1..Len(line) :
          /\ from + n <= Len(line)
          /\ \A k \in from..(from + n - 1) : line[k] \in Digits
          /\ line[from + n] \in closers
  IN \/ Len(low) >= 5 /\ SubSeq(low, 1, 5) = << "s", "t", "e", "p", " " >>
                      /\ number(6, { ":" })
     \/ Len(line) >= 1 /\ line[1] = "U+2022"
     \/ number(1, { ".", ")" })
     \/ includes(low, << "r", "e", "a", "s", "o", "n", "i", "n", "g", ":" >>)

\* the marked lines of a response, trimmed, or the response itself when it
\* has none
MarkedLines(response) ==
  LET lines == SelectSeq(split(response), Marked)
  IN IF lines = << >> THEN << response >>
     ELSE [i \in 1..Len(lines) |-> trim(lines[i])]

\* the reasoning handler served the invocation and it succeeded
ReasoningServed == InvocationSucceeded /\ ServedBy = "handle_reasoning"

\* C21: the reasoning steps of a response are its marked lines ("step N:", a
\* bullet character, "N." or "N)" in front, or "reasoning:" inside), trimmed
\* and in their order, or the whole response as the only step when no line is
\* marked; there is always at least one step.
C21_StepsKept ==
  ReasoningServed =>
    /\ result.reasoningSteps = Some(MarkedLines(ResponseText))
    /\ Len(result.reasoningSteps[1]) > 0

\* the records of the memory store: id, content and embedding
Records ==
  IF backend = "pinecone"
    THEN { [id |-> r.id, content |-> r.metadata.fullContent, embedding |-> r.values] :
             r \in index }
    ELSE { memoryStore[i] : i \in 1..Len(memoryStore) }

\* the number of records the store holds
RecordCount ==
  IF backend = "pinecone" THEN Cardinality(index) ELSE Len(memoryStore)

\* C22: while no clear is called, a record once in the memory store stays in
\* it under the same id with the same content and embedding; a store adds a
\* record under an id no record had; and the number of records never goes
\* down.
C22_RecordsKept ==
  /\ [](\A r, s \in Records : r.id = s.id => r = s)
  /\ [](RecordCount = Cardinality(Records))
  /\ [][/\ Records \subseteq Records'
        /\ \A r \in Records' \ Records : \A s \in Records : s.id # r.id
        /\ RecordCount' >= RecordCount]_vars

\* two files and a response stored, with queries made in between
C22_Witness ==
  /\ pc = "returned"
  /\ RecordCount = 3
  /\ Len(queries) >= 1
  /\ calls.store = "ok"

\* no node is entered twice, no file path is read twice, no memory query and
\* no completion call is made again
NothingRepeated ==
  /\ \A i, j \in 1..Len(ran) : i # j => ran[i] # ran[j]
  /\ \A i, j \in 1..Len(calls.files) : i # j => calls.files[i].path # calls.files[j].path
  /\ Len(queries) <= 2
  /\ Cardinality({ i \in 1..Len(ran) : ran[i] \in Handlers }) <= 1

\* the invocation is over exactly when a handler has returned or thrown
EndsAtHandler ==
  pc = "returned" <=>
    (Len(finished) > 0 /\ finished[Len(finished)] \in Handlers /\ result.returned)

\* C23: when every external call returns or fails in the end, an invocation
\* that was started returns a result; on the way no node and no call is
\* repeated, and the invocation ends when its handler returns or throws.
C23_Returns ==
  /\ (pc = "process_files") ~> (pc = "returned" /\ result.returned)
  /\ []NothingRepeated
  /\ []EndsAtHandler

\* an invocation that returned failure after a file read and the input
\* embedding had failed as well
C23_Witness ==
  /\ InvocationFailed
  /\ \E c \in 1..Len(calls.files) : ~calls.files[c].read
  /\ st.embeddings = None
  /\ calls.completion = "failed"

\* every component of the vector is zero
ZeroMagnitude(v) == \A i \in 1..Len(v) : v[i] = 0

\* the two vectors cosineSimilarity was called with
ComparedA == local.embedding[1]
ComparedB == memoryStore[1].embedding

\* C24: cosineSimilarity always answers with a number; the number is 0 when
\* one of the vectors has zero magnitude or when the two differ in dimension,
\* and it is 1 when a vector of non-zero magnitude is compared with itself
\* (in exact arithmetic: the square of the dot product equals the product of
\* the squared magnitudes).
C24_CosineEdges ==
  step = "compared" =>
    /\ local.similarity # None
    /\ (ZeroMagnitude(ComparedA) \/ ZeroMagnitude(ComparedB)
          \/ Len(ComparedA) # Len(ComparedB)) =>
         local.similarity[1].sgn = 0
    /\ (ComparedA = ComparedB /\ ~ZeroMagnitude(ComparedA)) =>
         /\ local.similarity[1].sgn = 1
         /\ local.similarity[1].num = local.similarity[1].den

\* a vector of two non-zero components compared with itself
C24_Witness ==
  /\ step = "compared"
  /\ ComparedA = << 1, 2 >> /\ ComparedB = << 1, 2 >>
  /\ local.similarity # None

\* the keyword fallback decided the category: the model named none, or, in
\* the Pinecone variant, it named qa
FallbackRan ==
  \/ ~NamesCategory(modelReply)
  \/ backend = "pinecone" /\ normalizeReply(modelReply.content) = CategoryText["qa"]

\* the input holds one of the writing keywords
WritingAsked == \E w \in { kwWrite, kwCreate, kwCompose } : Mentions(st.input, w)

\* C25: when the keyword fallback decides for a request with at least one
\* attachment whose input holds none of write, create, compose, the category
\* is analysis or reading, whatever other keywords the input holds.
C25_AttachmentsRead ==
  (Classified /\ FallbackRan /\ AttachmentsPresent /\ ~WritingAsked) =>
    st.taskType \in { "analysis", "reading" }

\* an input asking to think, sent with a file and classified by the fallback
C25_Witness ==
  /\ Classified /\ FallbackRan /\ AttachmentsPresent
  /\ st.input = << "t", "h", "i", "n", "k" >>
  /\ st.taskType = "reading"

\* the request named files and not one of them could be read
AllReadsFailed ==
  /\ Len(st.files) > 0
  /\ Len(calls.files) = Len(st.files)
  /\ \A c \in 1..Len(calls.files) : ~calls.files[c].read

\* C26: when every file read of a request fails, fileContents is empty, and
\* the category and the handler are those of the same input sent without
\* files: the keyword rules applied as for no attachment when the fallback
\* decides, the model's category otherwise, and the handler the dispatch
\* table gives for it.
C26_UnreadAsNoFiles ==
  (Classified /\ AllReadsFailed) =>
    /\ st.fileContents = Some(<< >>)
    /\ st.taskType =
         IF FallbackRan THEN RuleCategory(st.input, FALSE)
         ELSE replyCategory(modelReply.content)
    /\ Len(ran) >= 4 => ran[4] = TableHandler[st.taskType]

\* two unreadable files sent with a request to summarize, which is then
\* answered as a plain question
C26_Witness ==
  /\ Classified /\ AllReadsFailed
  /\ Len(st.files) = 2
  /\ st.input = << "S", "u", "m", "m", "a", "r", "i", "z", "e" >>
  /\ FallbackRan
  /\ st.taskType = "qa"
  /\ Len(ran) >= 4 /\ ran[4] = "handle_qa"

\* the files of this invocation whose store went through
StoredFiles == { c \in 1..Len(calls.files) : calls.files[c].stored }

\* C27: when the handler's completion call fails, the store still holds one
\* record for every file of the invocation whose store succeeded, and holds
\* no response record; a response record exists only after a completion call
\* that succeeded.
C27_NoRollback ==
  /\ (pc = "returned" /\ calls.completion = "failed") =>
       /\ \A c \in StoredFiles :
            TimesStored(fileContent(calls.files[c].path)) =
              Cardinality({ d \in StoredFiles :
                              fileContent(calls.files[d].path) =
                                fileContent(calls.files[c].path) })
       /\ RecordCount = Cardinality(StoredFiles)
       /\ ResponseRecords = { }
  /\ ResponseRecords # { } => calls.completion = "ok"

\* a failed request that had stored two of its three files
C27_Witness ==
  /\ InvocationFailed /\ calls.completion = "failed"
  /\ Len(st.files) = 3
  /\ Cardinality(StoredFiles) = 2
  /\ RecordCount = 2

\* the record memoryStore.set makes of a text
NewRecord(text) == [id |-> nextId, content |-> text, embedding |-> embedQuery(text)]

\* C28: in the in-process variant a clear leaves the store empty at the
\* instant it runs, and a store whose embedding call succeeds adds its record
\* to whatever the store then holds, whether or not a clear ran while the
\* embedding was awaited.
C28_StoreAfterClear ==
  /\ [][(backend = "memory" /\ admin'.clears > admin.clears) =>
          memoryStore' = << >>]_vars
  /\ [][(backend = "memory" /\ pc = "process_files" /\ step = "store"
            /\ calls'.files[Len(calls.files)].stored) =>
          memoryStore' = Append(memoryStore, NewRecord(local.pending))]_vars
  /\ [][(backend = "memory" /\ pc \in Handlers /\ step = "store"
            /\ calls'.store = "ok") =>
          memoryStore' = Append(memoryStore, NewRecord(local.responseText))]_vars

\* the store was cleared while the only request was awaiting the embedding of
\* its file; the request has returned and the store holds the file's record
C28_Witness ==
  /\ backend = "memory"
  /\ admin.clears = 1 /\ admin.emptied
  /\ admin.clearedAt = "process_files" /\ admin.awaiting = "store"
  /\ pc = "returned"
  /\ \E i \in 1..Len(memoryStore) : memoryStore[i].content = fileContent(1)

\* C29: in the in-process variant, when the context stage left no input
\* embedding the classification model is not called and the category is the
\* one the keyword rules give; the model is called only with an embedding in
\* the state.
C29_ModelNeedsEmbedding ==
  (backend = "memory" /\ Classified) =>
    /\ st.embeddings = None =>
         /\ ~modelReply.called
         /\ st.taskType = RuleCategory(st.input, AttachmentsPresent)
    /\ modelReply.called => st.embeddings # None

\* a request to think whose input embedding failed, classified by keyword
C29_Witness ==
  /\ backend = "memory" /\ Classified
  /\ st.embeddings = None
  /\ modelReply = NoReply
  /\ st.input = << "t", "h", "i", "n", "k" >>
  /\ st.taskType = "reasoning"

\* the request asks for one of the two memory actions
MemoryAction == http.action \in { "clear-memory", "memory-stats" }

\* the route has answered a request whose form it could read
Answered == http.at = "responded" /\ http.body # "Internal server error"

\* C30: the workflow runs only for a request with a non-empty input whose
\* action is neither clear-memory nor memory-stats; a memory action is
\* answered with status 200 whatever the input, and a request with an empty
\* input and no memory action is answered with status 400, both with no
\* upload written and the workflow not invoked.
C30_RouteGuards ==
  /\ pc # "idle" => http.invoked
  /\ http.invoked => (http.input # << >> /\ ~MemoryAction)
  /\ (Answered /\ MemoryAction) =>
       /\ http.status = 200
       /\ http.written = 0 /\ ~http.invoked
  /\ (Answered /\ ~MemoryAction /\ http.input = << >>) =>
       /\ http.status = 400
       /\ http.written = 0 /\ ~http.invoked

\* a clear-memory request sent without input and with a file: answered with
\* 200, the store empty, nothing written
C30_Witness ==
  /\ Answered
  /\ http.action = "clear-memory" /\ http.input = << >> /\ http.files = 1
  /\ http.status = 200 /\ http.written = 0
  /\ nextId > 1 /\ memoryStore = << >>

====
